---- MODULE Spec2Model ----
(***************************************************************************)
(* Three Streamlit dashboards over the micro-business survey:              *)
(*   "ident"  = src/dashboard_micronegocios.py (identification module)     *)
(*   "empr"   = src/Micronegocio_2.py          (entrepreneurship module)   *)
(*   "ventas" = src/Micronegocio_3.py          (sales module)              *)
(* Each one loads a CSV, preprocesses it (deduplicate, recode, bin),       *)
(* filters it by the sidebar widgets and aggregates it for the charts.     *)
(***************************************************************************)
EXTENDS Integers, Sequences, FiniteSets, TLC

VARIABLES variant, file, pc, df, sel, df_filtered, charts, views,
          parses, df_raw, cache, run, last

vars == <<variant, file, pc, df, sel, df_filtered, charts, views,
          parses, df_raw, cache, run, last>>

(***************************************************************************)
(* Cell values of a pandas column: a number, NaN/None, or a string.        *)
(***************************************************************************)
NumV(x) == [k |-> "num", n |-> x, s |-> ""]

NaNV == [k |-> "nan", n |-> 0, s |-> ""]

StrV(t) == [k |-> "str", n |-> 0, s |-> t]

IsNum(v) == v.k = "num"

IsNaN(v) == v.k = "nan"

IsStr(v) == v.k = "str"

\* pd.to_numeric(column, errors='coerce'), cell by cell
ToNumeric(v) == IF IsNum(v) THEN v ELSE NaNV

\* Series.map(dict): a key of the dict gives its label, anything else NaN
MapCode(m, v) == IF IsNum(v) /\ v.n \in DOMAIN m THEN StrV(m[v.n]) ELSE NaNV

\* Series.fillna(x)
FillNa(v, x) == IF IsNaN(v) THEN x ELSE v

Desconocido == StrV("Desconocido")

NoDisponible == StrV("No Disponible")

\* decimal text of a non-negative integer, as str() prints it
DigitText == <<"0", "1", "2", "3", "4", "5", "6", "7", "8", "9">>

RECURSIVE NatText(_)
NatText(x) == IF x < 10 THEN DigitText[x + 1] ELSE NatText(x \div 10) \o DigitText[(x % 10) + 1]

IntText(x) == IF x < 0 THEN "-" \o NatText(0 - x) ELSE NatText(x)

\* Series.astype(str), cell by cell; a numeric column that holds a NaN is float64
AsTypeStr(v, isFloat) ==
    CASE IsNum(v) -> StrV(IF isFloat THEN IntText(v.n) \o ".0" ELSE IntText(v.n))
      [] IsNaN(v) -> StrV("nan")
      [] OTHER    -> v

(***************************************************************************)
(* The code -> label tables of the three loaders.                          *)
(***************************************************************************)
p35_map == <<"Hombre", "Mujer">>

grupos12_map ==
    << "Agricultura, Ganadería, Caza y Silvicultura", "Explotación de Minas y Canteras",
       "Industrias Manufactureras", "Suministro de Electricidad, Gas y Agua",
       "Construcción", "Comercio al por mayor y al por menor",
       "Hoteles y Restaurantes", "Transporte, Almacenamiento y Comunicaciones",
       "Intermediación Financiera y Seguros",
       "Actividades Inmobiliarias, Empresariales y de Alquiler",
       "Administración Pública y Defensa; Educación; Servicios Sociales y de Salud",
       "Otras Actividades de Servicios Comunitarias, Sociales y Personales" >>

p3031_map == <<"Sí", "No">>

clase_te_map == <<"Urbana", "Rural">>

p3050_map ==
    << "Usted solo", "Usted y otro(s) familiares",
       "Usted y otra(s) persona(s) no familiar(es)", "Otras personas",
       "Un familiar", "Otro" >>

p3051_map ==
    << "No tiene otra alternativa de ingresos",
       "Lo identificó como una oportunidad de negocio en el mercado",
       "Por tradición familiar o lo heredó",
       "Para complementar el ingreso familiar o mejorar el ingreso",
       "Para ejercer su oficio, carrera o profesión",
       "No tenía la experiencia requerida, la escolaridad o capacitación para un empleo",
       "Otro" >>

p639_map ==
    << "Menos de un año", "De 1 a menos de 3 años", "De 3 a menos de 5 años",
       "De 5 a menos de 10 años", "10 años y más" >>

p3052_map ==
    << "Ahorros personales", "Préstamos familiares", "Préstamos bancarios",
       "Prestamistas", "Capital semilla", "No requirió financiación", "No sabe", "Otro" >>

antiguedad_order == p639_map \o <<"Desconocido">>

labels_edad == <<"<25", "25-34", "35-44", "45-54", "55-64", "65+">>

labels_antiguedad ==
    <<"<1 año", "1-3 años", "3-5 años", "5-10 años", "10-20 años", "20+ años">>

Variants == {"ident", "empr", "ventas"}

required_cols(v) ==
    CASE v = "ident"  -> {"P35", "GRUPOS12", "P241", "P3034", "P3031", "AREA", "CLASE_TE",
                          "F_EXP", "DIRECTORIO"}
      [] v = "empr"   -> {"SECUENCIA_P", "SECUENCIA_ENCUESTA", "P3050", "P3051", "P639",
                          "P3052", "CLASE_TE", "COD_DEPTO", "AREA", "F_EXP", "DIRECTORIO"}
      [] v = "ventas" -> {"DIRECTORIO", "F_EXP", "AREA", "P3057", "P3061", "P3064", "P3072"}

(***************************************************************************)
(* Dataframes: a set of column names, the columns of ordered categorical   *)
(* dtype (cat), the columns read_csv typed float64 because a cell was      *)
(* empty (flt) or object because a cell was not a number (obj), and the    *)
(* rows in index order (functions on the columns).                         *)
(***************************************************************************)
EmptyDF == [cols |-> {}, cat |-> {}, flt |-> {}, obj |-> {}, rows |-> <<>>]

Ext(r, name, v) == [c \in (DOMAIN r) \cup {name} |-> IF c = name THEN v ELSE r[c]]

\* df[name] = F(row), row by row
AddCol(d, name, F(_)) ==
    [d EXCEPT !.cols = @ \cup {name},
              !.rows = [i \in DOMAIN @ |-> Ext(@[i], name, F(@[i]))]]

\* the rows of s that satisfy Keep, in order (boolean-mask indexing)
FilterSeq(s, Keep(_)) ==
    LET F[i \in 0..Len(s)] ==
            IF i = 0 THEN <<>>
            ELSE IF Keep(s[i]) THEN Append(F[i - 1], s[i]) ELSE F[i - 1]
    IN  F[Len(s)]

\* df.dropna(subset=[name], inplace=True)
DropNa(d, name) == [d EXCEPT !.rows = FilterSeq(@, LAMBDA r : ~IsNaN(r[name]))]

\* drop_duplicates with keep='last'
DropDuplicates_KeepLast(d, name) ==
    LET rs == d.rows
        lasts == {i \in DOMAIN rs : \A j \in (i + 1)..Len(rs) : rs[j][name] # rs[i][name]}
        F[i \in 0..Len(rs)] ==
            IF i = 0 THEN <<>>
            ELSE IF i \in lasts THEN Append(F[i - 1], rs[i]) ELSE F[i - 1]
    IN  [d EXCEPT !.rows = F[Len(rs)]]

\* df.drop_duplicates(subset=[name], keep='first', inplace=True)
DropDuplicates(d, name) ==
    LET rs == d.rows
        firsts == {i \in DOMAIN rs : \A j \in 1..(i - 1) : rs[j][name] # rs[i][name]}
        F[i \in 0..Len(rs)] ==
            IF i = 0 THEN <<>>
            ELSE IF i \in firsts THEN Append(F[i - 1], rs[i]) ELSE F[i - 1]
    IN  [d EXCEPT !.rows = F[Len(rs)]]

\* the recoder without its fillna('Desconocido')
Recode_NoFill(d, src, dst, m) ==
    IF src \in d.cols
    THEN AddCol(d, dst, LAMBDA r : MapCode(m, ToNumeric(r[src])))
    ELSE AddCol(d, dst, LAMBDA r : NoDisponible)

\* the recoder without its else branch
Recode_NoPlaceholder(d, src, dst, m) ==
    IF src \in d.cols
    THEN AddCol(d, dst, LAMBDA r : FillNa(MapCode(m, ToNumeric(r[src])), Desconocido))
    ELSE d

\* the recoder: to_numeric, map, fillna('Desconocido'); 'No Disponible' without the column
Recode(d, src, dst, m) ==
    IF src \in d.cols
    THEN AddCol(d, dst, LAMBDA r : FillNa(MapCode(m, ToNumeric(r[src])), Desconocido))
    ELSE AddCol(d, dst, LAMBDA r : NoDisponible)

\* AREA_Label = df['AREA'].fillna('Desconocida').astype(str)
AreaLabel(d) ==
    IF "AREA" \in d.cols
    THEN AddCol(d, "AREA_Label",
                LAMBDA r : AsTypeStr(FillNa(r["AREA"], StrV("Desconocida")), "AREA" \in d.flt))
    ELSE AddCol(d, "AREA_Label", LAMBDA r : NoDisponible)

\* the F_EXP default of the identification and entrepreneurship loaders
WeightDefault(d) ==
    IF "F_EXP" \notin d.cols THEN AddCol(d, "F_EXP", LAMBDA r : NumV(1)) ELSE d

Range(q) == {q[i] : i \in DOMAIN q}

\* pd.Categorical(values, categories=cats, ordered=True): a value outside cats becomes NaN
Categorical(v, cats) == IF IsStr(v) /\ v.s \in Range(cats) THEN v ELSE NaNV

\* Series.max(): the largest number of the column, NaN when it has none
ColMax(d, name) ==
    LET xs == {d.rows[i][name].n : i \in {j \in DOMAIN d.rows : IsNum(d.rows[j][name])}}
    IN  IF xs = {} THEN NaNV ELSE NumV(CHOOSE x \in xs : \A y \in xs : y <= x)

\* the bin edges with the observed maximum itself as the last edge
BinEdges_NoMargin(d, num, edges, fallback) ==
    LET mx == ColMax(d, num)
    IN  Append(edges, IF IsNum(mx) /\ mx.n > 0 THEN mx.n ELSE fallback)

\* the bin edges of the two binned columns: the fixed edges, then
\* max() + 10 if max() > 0 else <fallback>
BinEdges(d, num, edges, fallback) ==
    LET mx == ColMax(d, num)
    IN  Append(edges, IF IsNum(mx) /\ mx.n > 0 THEN mx.n + 10 ELSE fallback)

bins_edad(d) == BinEdges(d, "Edad", <<0, 25, 35, 45, 55, 65>>, 100)

bins_antiguedad(d) == BinEdges(d, "Antiguedad_Meses", <<0, 12, 36, 60, 120, 240>>, 250)

\* pd.cut accepts the edges only when they increase strictly
\* ("bins must increase monotonically" / "Bin edges must be unique")
ValidBins(bins) == \A i \in 1..(Len(bins) - 1) : bins[i] < bins[i + 1]

\* pd.cut(x, bins, labels, right=False): the label of the interval
\* [bins[i], bins[i+1]) that holds x, NaN when no interval does
Cut(v, bins, labels) ==
    IF IsNum(v) /\ \E i \in DOMAIN labels : bins[i] <= v.n /\ v.n < bins[i + 1]
    THEN StrV(labels[CHOOSE i \in DOMAIN labels : bins[i] <= v.n /\ v.n < bins[i + 1]])
    ELSE NaNV

\* the numeric copy of a binned column, with the rows it cannot read dropped
NumericKept(d, src, num) ==
    IF src \in d.cols
    THEN DropNa(AddCol(d, num, LAMBDA r : ToNumeric(r[src])), num)
    ELSE AddCol(d, num, LAMBDA r : NaNV)

\* the ordered bucket column of a binned column
Binned(d, src, num, dst, bins, labels) ==
    IF src \in d.cols
    THEN [AddCol(d, dst, LAMBDA r : Categorical(Cut(r[num], bins, labels), labels))
            EXCEPT !.cat = @ \cup {dst}]
    ELSE AddCol(d, dst, LAMBDA r : NoDisponible)

(***************************************************************************)
(* The CSV file: whether it exists, its delimiter, its header and rows.    *)
(* pd.read_csv(sep=s) sees the file's columns when s is the file's         *)
(* delimiter (or the file has a single column); otherwise each line is one *)
(* cell of a single column named by the whole header line.  The file's     *)
(* raises field holds the delimiters under which its lines do not split    *)
(* into the header's number of fields, so that pd.read_csv raises.         *)
(***************************************************************************)
\* pd.read_csv(sep=s) raises (ParserError), which the except clause catches
Raises(f, s) == s \in f.raises

ReadCsv(f, s) ==
    IF f.sep = s \/ Cardinality(f.cols) <= 1
    THEN [cols |-> f.cols, cat |-> {},
          flt  |-> {c \in f.cols : /\ \E i \in DOMAIN f.rows : IsNaN(f.rows[i][c])
                                   /\ \A i \in DOMAIN f.rows : ~IsStr(f.rows[i][c])},
          obj  |-> {c \in f.cols : \E i \in DOMAIN f.rows : IsStr(f.rows[i][c])},
          rows |-> f.rows]
    ELSE [cols |-> {"<header line>"}, cat |-> {}, flt |-> {}, obj |-> {"<header line>"},
          rows |-> [i \in DOMAIN f.rows |-> [c \in {"<header line>"} |-> StrV("<line>")]]]

\* the parsed frame kept whole
Project_All(d, found) == d

\* df_temp[found_cols].copy()
Project(d, found) ==
    [cols |-> found, cat |-> {}, flt |-> d.flt \cap found, obj |-> d.obj \cap found,
     rows |-> [i \in DOMAIN d.rows |-> [c \in found |-> d.rows[i][c]]]]

\* the loading part without the emptiness test after the parse
LoadCsv_NoEmptyCheck(v, f) ==
    IF ~f.exists THEN [status |-> "fatal", parses |-> <<>>, df |-> EmptyDF]
    ELSE LET t1 == ReadCsv(f, ",")
             found1 == IF Raises(f, ",") THEN {} ELSE required_cols(v) \cap t1.cols
             t2 == ReadCsv(f, ";")
             found2 == IF Raises(f, ";") THEN {} ELSE required_cols(v) \cap t2.cols
         IN  IF found1 # {}
             THEN [status |-> "ok", parses |-> <<",">>, df |-> Project(t1, found1)]
             ELSE IF found2 # {}
             THEN [status |-> "ok", parses |-> <<",", ";">>, df |-> Project(t2, found2)]
             ELSE [status |-> "fatal", parses |-> <<",", ";">>, df |-> EmptyDF]

\* the loading part without the second attempt: the comma parse or nothing
LoadCsv_NoFallback(v, f) ==
    IF ~f.exists THEN [status |-> "fatal", parses |-> <<>>, df |-> EmptyDF]
    ELSE LET t1 == ReadCsv(f, ",")
             found1 == IF Raises(f, ",") THEN {} ELSE required_cols(v) \cap t1.cols
         IN  IF found1 # {}
             THEN [status |-> IF f.rows = <<>> THEN "fatal" ELSE "ok",
                   parses |-> <<",">>, df |-> Project(t1, found1)]
             ELSE [status |-> "fatal", parses |-> <<",">>, df |-> EmptyDF]

\* the loading part of load_and_preprocess_data: existence test, comma attempt,
\* semicolon fallback, emptiness test.  parses = the delimiters tried, in order.
LoadCsv(v, f) ==
    IF ~f.exists THEN [status |-> "fatal", parses |-> <<>>, df |-> EmptyDF]
    ELSE LET t1 == ReadCsv(f, ",")
             found1 == IF Raises(f, ",") THEN {} ELSE required_cols(v) \cap t1.cols
             t2 == ReadCsv(f, ";")
             found2 == IF Raises(f, ";") THEN {} ELSE required_cols(v) \cap t2.cols
         IN  IF found1 # {}
             THEN [status |-> IF f.rows = <<>> THEN "fatal" ELSE "ok",
                   parses |-> <<",">>, df |-> Project(t1, found1)]
             ELSE IF found2 # {}
             THEN [status |-> IF f.rows = <<>> THEN "fatal" ELSE "ok",
                   parses |-> <<",", ";">>, df |-> Project(t2, found2)]
             ELSE [status |-> "fatal", parses |-> <<",", ";">>, df |-> EmptyDF]

Dedup(d) == IF "DIRECTORIO" \in d.cols THEN DropDuplicates(d, "DIRECTORIO") ELSE d

(***************************************************************************)
(* Preprocessing of the identification dashboard.  status "crash" is an    *)
(* exception that leaves load_and_preprocess_data (pd.cut's ValueError).   *)
(***************************************************************************)
PreprocessIdent(d0) ==
    LET d1 == Dedup(d0)
        d2 == Recode(d1, "P35", "Género", p35_map)
        d3 == Recode(d2, "GRUPOS12", "Industria_Label", grupos12_map)
        d4 == NumericKept(d3, "P241", "Edad")
        d5 == Binned(d4, "P241", "Edad", "Edad_Grupo", bins_edad(d4), labels_edad)
        d6 == NumericKept(d5, "P3034", "Antiguedad_Meses")
        d7 == Binned(d6, "P3034", "Antiguedad_Meses", "Antiguedad_Negocio_Grupo",
                     bins_antiguedad(d6), labels_antiguedad)
        d8 == Recode(d7, "P3031", "Tiene_Ayuda", p3031_map)
        d9 == AreaLabel(d8)
        d10 == Recode(d9, "CLASE_TE", "CLASE_TE_Label", clase_te_map)
    IN  IF "P241" \in d0.cols /\ ~ValidBins(bins_edad(d4))
        THEN [status |-> "crash", df |-> EmptyDF]
        ELSE IF "P3034" \in d0.cols /\ ~ValidBins(bins_antiguedad(d6))
        THEN [status |-> "crash", df |-> EmptyDF]
        ELSE [status |-> "ok", df |-> WeightDefault(d10)]

(***************************************************************************)
(* Preprocessing of the entrepreneurship dashboard.                        *)
(***************************************************************************)
RangoCategorical(d) ==
    IF "P639" \in d.cols
    THEN [AddCol(d, "Antiguedad_Negocio_Rango",
                 LAMBDA r : Categorical(r["Antiguedad_Negocio_Rango"], antiguedad_order))
            EXCEPT !.cat = @ \cup {"Antiguedad_Negocio_Rango"}]
    ELSE d

\* Departamento = df['COD_DEPTO'].astype(str).fillna('Desconocido')
Departamento(d) ==
    IF "COD_DEPTO" \in d.cols
    THEN AddCol(d, "Departamento",
                LAMBDA r : FillNa(AsTypeStr(r["COD_DEPTO"], "COD_DEPTO" \in d.flt), Desconocido))
    ELSE AddCol(d, "Departamento", LAMBDA r : NoDisponible)

PreprocessEmpr(d0) ==
    LET d1 == Dedup(d0)
        d2 == Recode(d1, "P3050", "Creador_Negocio", p3050_map)
        d3 == Recode(d2, "P3051", "Motivo_Inicio", p3051_map)
        d4 == RangoCategorical(Recode(d3, "P639", "Antiguedad_Negocio_Rango", p639_map))
        d5 == Recode(d4, "P3052", "Fuente_Recursos", p3052_map)
        d6 == Recode(d5, "CLASE_TE", "CLASE_TE_Label", clase_te_map)
        d7 == Departamento(AreaLabel(d6))
    IN  [status |-> "ok", df |-> WeightDefault(d7)]

(***************************************************************************)
(* Preprocessing of the sales dashboard.                                   *)
(***************************************************************************)
\* F_EXP = to_numeric(F_EXP).fillna(1), or the constant 1 without the column
WeightNumeric(d) ==
    IF "F_EXP" \in d.cols
    THEN [AddCol(d, "F_EXP", LAMBDA r : FillNa(ToNumeric(r["F_EXP"]), NumV(1)))
            EXCEPT !.obj = @ \ {"F_EXP"}, !.flt = @ \ {"F_EXP"}]
    ELSE AddCol(d, "F_EXP", LAMBDA r : NumV(1))

\* df[col] = to_numeric(df[col]).fillna(0), or the constant 0 without the column
Income(d, col) ==
    IF col \in d.cols
    THEN [AddCol(d, col, LAMBDA r : FillNa(ToNumeric(r[col]), NumV(0)))
            EXCEPT !.obj = @ \ {col}, !.flt = @ \ {col}]
    ELSE AddCol(d, col, LAMBDA r : NumV(0))

PreprocessVentas(d0) ==
    LET d1 == AreaLabel(WeightNumeric(Dedup(d0)))
        d2 == Income(Income(Income(Income(d1, "P3057"), "P3061"), "P3064"), "P3072")
        d3 == AddCol(d2, "Total_Ingresos_Categorizados",
                     LAMBDA r : NumV(r["P3057"].n + r["P3061"].n + r["P3064"].n))
    IN  [status |-> "ok", df |-> d3]

\* load_and_preprocess_data(CSV_PATH) of the three scripts
load_and_preprocess_data(v, f) ==
    LET l == LoadCsv(v, f)
        p == CASE v = "ident"  -> PreprocessIdent(l.df)
               [] v = "empr"   -> PreprocessEmpr(l.df)
               [] v = "ventas" -> PreprocessVentas(l.df)
    IN  IF l.status # "ok"
        THEN [status |-> l.status, parses |-> l.parses, raw |-> EmptyDF, df |-> EmptyDF]
        ELSE [status |-> p.status, parses |-> l.parses, raw |-> l.df, df |-> p.df]

(***************************************************************************)
(* The aggregator: prepare_data_for_plotly (identification) and            *)
(* prepare_data_for_plotly_percentage (entrepreneurship), the same code.   *)
(* A percentage is the exact fraction num/den.                             *)
(***************************************************************************)
RECURSIVE SumSeq(_)
SumSeq(q) == IF q = <<>> THEN 0 ELSE Head(q) + SumSeq(Tail(q))

\* Series.sum() of the F_EXP cells of the rows: NaN is skipped
SumWeights(rows) ==
    SumSeq([i \in DOMAIN rows |-> IF IsNum(rows[i]["F_EXP"]) THEN rows[i]["F_EXP"].n ELSE 0])

EmptyAgg == [status |-> "empty", cat |-> FALSE, rows |-> <<>>]

\* the group keys of groupby(group_col): every category of a categorical column,
\* in category order; the distinct values of any other column
CategoriesOf(group_col) ==
    CASE group_col = "Edad_Grupo" -> labels_edad
      [] group_col = "Antiguedad_Negocio_Grupo" -> labels_antiguedad
      [] group_col = "Antiguedad_Negocio_Rango" -> antiguedad_order
      [] OTHER -> <<>>

\* Porcentaje = (F_EXP_Sum / total_f_exp) * 100 if total_f_exp > 0 else 0
Porcentaje(sum, total) ==
    IF total > 0 THEN [num |-> 100 * sum, den |-> total] ELSE [num |-> 0, den |-> 1]

\* a >= b for two fractions with positive denominators
FracGeq(a, b) == a.num * b.den >= b.num * a.den

\* sort_values('Porcentaje', ascending=False): an ordering of the group rows by
\* non-increasing percentage
SortDesc(gs) ==
    LET n == Cardinality(gs)
    IN  CHOOSE q \in [1..n -> gs] :
            /\ \A g \in gs : \E i \in 1..n : q[i] = g
            /\ \A i \in 1..(n - 1) : FracGeq(q[i].Porcentaje, q[i + 1].Porcentaje)

\* every aggregate sorted by percentage, the ordered buckets too
SortGrouped_ByPercentage(isCat, grouped) == SortDesc(Range(grouped))

\* sort_values(group_col) for a categorical grouping column (groupby already yields
\* the categories in their declared order), sort_values('Porcentaje',
\* ascending=False) for any other
SortGrouped(isCat, grouped) == IF isCat THEN grouped ELSE SortDesc(Range(grouped))

\* total_f_exp = df_grouped['F_EXP_Sum'].sum()
TotalFExp(groupSums) == SumSeq(groupSums)

prepare_data_for_plotly(d, group_col) ==
    IF group_col \notin d.cols THEN EmptyAgg
    ELSE
    LET temp == FilterSeq(d.rows, LAMBDA r : ~IsNaN(r[group_col]))
        isCat == group_col \in d.cat
        keys == IF isCat
                THEN [i \in DOMAIN CategoriesOf(group_col) |-> StrV(CategoriesOf(group_col)[i])]
                ELSE LET ks == {temp[i][group_col] : i \in DOMAIN temp}
                     IN  CHOOSE q \in [1..Cardinality(ks) -> ks] :
                             \A x \in ks : \E i \in DOMAIN q : q[i] = x
        sums == [i \in DOMAIN keys |->
                    SumWeights(FilterSeq(temp, LAMBDA r : r[group_col] = keys[i]))]
        total_f_exp == TotalFExp(sums)
        grouped == [i \in DOMAIN keys |->
                      [g |-> keys[i], F_EXP_Sum |-> sums[i],
                       Porcentaje |-> Porcentaje(sums[i], total_f_exp)]]
    IN  IF temp = <<>> THEN EmptyAgg
        ELSE IF "F_EXP" \in d.obj THEN [status |-> "crash", cat |-> isCat, rows |-> <<>>]
        ELSE [status |-> "ok", cat |-> isCat,
              rows |-> SortGrouped(isCat, grouped)]

\* the grouping columns the script passes to the aggregator, chart by chart
ChartCols(v) ==
    CASE v = "ident"  -> {"Industria_Label", "Género", "Edad_Grupo", "Antiguedad_Negocio_Grupo",
                          "Tiene_Ayuda", "AREA_Label", "CLASE_TE_Label"}
      [] v = "empr"   -> {"Creador_Negocio", "Motivo_Inicio", "Antiguedad_Negocio_Rango",
                          "Fuente_Recursos"}
      [] v = "ventas" -> {}

(***************************************************************************)
(* The sidebar: one multi-select per filter column (options = the distinct *)
(* labels present, default = all of them) and, in the sales dashboard, the *)
(* income slider.  A selection is [multi : column -> set of labels,        *)
(* range : <<lo, hi>>].                                                    *)
(***************************************************************************)
FilterCols(v) ==
    CASE v = "ident"  -> {"Género", "Industria_Label"}
      [] v = "empr"   -> {"Creador_Negocio", "Motivo_Inicio", "Antiguedad_Negocio_Rango",
                          "Fuente_Recursos", "CLASE_TE_Label", "AREA_Label"}
      [] v = "ventas" -> {"AREA_Label"}

\* df[col].unique().tolist()
Unique(d, col) == {d.rows[i][col] : i \in DOMAIN d.rows}

ColMin(d, name) ==
    LET xs == {d.rows[i][name].n : i \in {j \in DOMAIN d.rows : IsNum(d.rows[j][name])}}
    IN  CHOOSE x \in xs : \A y \in xs : x <= y

SliderStep == 1000

\* min_value and max_value of the slider
SliderMin(d) == ColMin(d, "P3072")

SliderMax(d) ==
    LET lo == ColMin(d, "P3072")
        hi == ColMax(d, "P3072").n
    IN  IF hi > lo THEN hi ELSE lo + 1

\* the slider's default value; (0, 0) when the column has no value
SliderDefault(v, d) ==
    IF v = "ventas" /\ \E i \in DOMAIN d.rows : ~IsNaN(d.rows[i]["P3072"])
    THEN <<SliderMin(d), SliderMax(d)>>
    ELSE <<0, 0>>

\* the positions the user can give the two handles
SliderValues(v, d) ==
    IF v = "ventas" /\ \E i \in DOMAIN d.rows : ~IsNaN(d.rows[i]["P3072"])
    THEN LET lo == SliderMin(d)
             hi == SliderMax(d)
             pos == {x \in lo..hi : (x - lo) % SliderStep = 0} \cup {hi}
         IN  {p \in pos \X pos : p[1] <= p[2]}
    ELSE {<<0, 0>>}

DefaultSel(v, d) ==
    [multi |-> [c \in FilterCols(v) |-> Unique(d, c)], range |-> SliderDefault(v, d)]

\* the number of options the selection leaves out
Deselected(v, d, s) ==
    LET cs == FilterCols(v)
        F[S \in SUBSET cs] ==
            IF S = {} THEN 0
            ELSE LET c == CHOOSE c \in S : TRUE
                 IN  Cardinality(Unique(d, c) \ s.multi[c]) + F[S \ {c}]
    IN  F[cs]

\* Series.isin(values)
IsIn(v, values) == v \in values

\* the masks ORed instead of ANDed
MaskAll_Any(v, r, s) == \E c \in FilterCols(v) : IsIn(r[c], s.multi[c])

\* the boolean mask of the multi-selects, ANDed column by column
MaskAll(v, r, s) == \A c \in FilterCols(v) : IsIn(r[c], s.multi[c])

\* the range test with exclusive ends
InRange_Exclusive(v, r, s) ==
    IF v = "ventas" /\ (s.range[1] # 0 \/ s.range[2] # 0)
    THEN r["P3072"].n > s.range[1] /\ r["P3072"].n < s.range[2]
    ELSE TRUE

\* the range test of the sales dashboard, applied unless the range is (0, 0)
InRange(v, r, s) ==
    IF v = "ventas" /\ (s.range[1] # 0 \/ s.range[2] # 0)
    THEN r["P3072"].n >= s.range[1] /\ r["P3072"].n <= s.range[2]
    ELSE TRUE

\* df_filtered
ApplyFilters(v, d, s) ==
    [d EXCEPT !.rows = FilterSeq(FilterSeq(@, LAMBDA r : MaskAll(v, r, s)),
                                 LAMBDA r : InRange(v, r, s))]

(***************************************************************************)
(* Input files.  A family of files is named by a profile that fixes the    *)
(* cells a column may hold; the columns are any few of the required ones.  *)
(***************************************************************************)
\* a file of the "run" family holds at most MaxCells cells (rows x columns)
MaxCells == 4

\* the user deselects at most MaxDeselect options of the multi-selects
MaxDeselect == 2

\* a file of the "load" family holds at most MaxLoadCells cells
MaxLoadCells == 4

\* a file of the "agg" family holds at most MaxAggRows rows
MaxAggRows == 3

\* a file of the "parse" family holds at most MaxParseCells cells
MaxParseCells == 4

CodeCols == {"P35", "GRUPOS12", "P3031", "CLASE_TE", "P3050", "P3051", "P639", "P3052"}

Cells(prof, col) ==
    CASE prof = "load" ->
           ( CASE col = "DIRECTORIO" -> {NumV(1), NumV(2)}
               [] col = "F_EXP" -> {NaNV, StrV("x"), NumV(2)}
               [] col \in CodeCols -> {NumV(1), NumV(99), StrV("x"), NaNV}
               [] col = "P241" -> {NaNV, NumV(0 - 1), NumV(25), NumV(65), NumV(70)}
               [] col = "P3034" -> {NaNV, NumV(36), NumV(240), NumV(300)}
               [] col \in {"AREA", "COD_DEPTO"} -> {NaNV, NumV(5)}
               [] col = "P3072" -> {NaNV, NumV(1000), NumV(2500)}
               [] col \in {"P3057", "P3061", "P3064"} -> {NaNV, NumV(1000)}
               [] OTHER -> {NumV(1)} )
      [] prof = "run" ->
           ( CASE col = "DIRECTORIO" -> {NumV(1), NumV(2)}
               [] col = "F_EXP" -> {NaNV, NumV(2)}
               [] col \in CodeCols -> {NumV(1), NumV(99)}
               [] col = "P241" -> {NaNV, NumV(70)}
               [] col = "P3034" -> {NaNV, NumV(300)}
               [] col \in {"AREA", "COD_DEPTO"} -> {NaNV, NumV(5)}
               [] col = "P3072" -> {NaNV, NumV(1000), NumV(2500)}
               [] col \in {"P3057", "P3061", "P3064"} -> {NumV(1000)}
               [] OTHER -> {NumV(1)} )
      [] prof = "parse" ->
           ( CASE col = "P241" -> {NaNV, NumV(25), NumV(70)}
               [] OTHER -> {NumV(1)} )
      [] prof = "session" ->
           ( CASE col = "F_EXP" -> {NumV(2), StrV("x")}
               [] col \in {"P35", "P3050"} -> {NumV(1), NumV(2)}
               [] col = "P241" -> {NaNV, NumV(25), NumV(70)}
               [] col = "P3072" -> {NumV(0), NumV(1000)}
               [] OTHER -> {NumV(1)} )
      [] prof = "agg" ->
           ( CASE col = "F_EXP" -> {NaNV, NumV(0 - 5), NumV(2), NumV(3), NumV(5)}
               [] col = "P3050" -> {NumV(1), NumV(2), NumV(99)}
               [] col = "P241" -> {NumV(0 - 1), NumV(30), NumV(70)}
               [] OTHER -> {NumV(1)} )

\* the delimiters under which a file of the profile may fail to parse
Ragged(prof) == IF prof = "parse" THEN {{}, {","}, {",", ";"}} ELSE {{}}

\* a column of the file that no dashboard asks for
OtherCol == "OTRA"

\* the rows over a set of columns: every choice of a cell per column
RECURSIVE RowSet(_, _)
RowSet(cols, prof) ==
    IF cols = {} THEN {[c \in {} |-> NaNV]}
    ELSE LET c == CHOOSE c \in cols : TRUE
         IN  {Ext(r, c, x) : r \in RowSet(cols \ {c}, prof), x \in Cells(prof, c)}

\* the number of rows of a file with the columns C and at most m cells
RowsWithin(C, m) == IF C = {} THEN 1 ELSE m \div Cardinality(C)

NoFile == [exists |-> FALSE, sep |-> ",", raises |-> {}, cols |-> {}, rows |-> <<>>]

UpTo(S, n) == {C \in SUBSET S : Cardinality(C) <= n}

NoSel == [multi |-> <<>>, range |-> <<0, 0>>]

\* the st.cache_data entry of load_and_preprocess_data(CSV_PATH): empty at process
\* start; src and at remember the file contents the cached value was computed from
\* and the run that computed it
NoCache == [hit |-> FALSE, src |-> NoFile, at |-> 0, df |-> EmptyDF]

\* the first run of a fresh process, at the call of load_and_preprocess_data
InitWith(v, f) ==
    /\ variant = v
    /\ file = f
    /\ pc = "start"
    /\ df = EmptyDF
    /\ sel = NoSel
    /\ df_filtered = EmptyDF
    /\ charts = <<>>
    /\ views = <<>>
    /\ parses = <<>>
    /\ df_raw = EmptyDF
    /\ cache = NoCache
    /\ run = 1
    /\ last = "none"

(***************************************************************************)
(* The steps of one script run.                                            *)
(***************************************************************************)
\* the call of load_and_preprocess_data without @st.cache_data: the body runs in
\* every run
Load_NoCache ==
    /\ pc = "start"
    /\ LET r == load_and_preprocess_data(variant, file)
       IN  /\ df' = r.df
           /\ parses' = r.parses
           /\ df_raw' = r.raw
           /\ cache' = IF r.status = "ok"
                       THEN [hit |-> TRUE, src |-> file, at |-> run, df |-> r.df]
                       ELSE cache
           /\ pc' = IF r.status # "ok" THEN r.status
                    ELSE IF r.df.rows = <<>> THEN "empty" ELSE "loaded"
    /\ UNCHANGED <<variant, file, sel, df_filtered, charts, views, run, last>>

\* df = load_and_preprocess_data(CSV_PATH); if df.empty: st.error, st.stop.
\* @st.cache_data: with an entry for CSV_PATH the body is not run and the entry's
\* value is returned; without one the body runs and its return value is stored
\* (nothing is stored when the body leaves by st.stop() or by an exception).
Load ==
    /\ pc = "start"
    /\ IF cache.hit
       THEN /\ df' = cache.df
            /\ pc' = IF cache.df.rows = <<>> THEN "empty" ELSE "loaded"
            /\ UNCHANGED <<parses, df_raw, cache>>
       ELSE LET r == load_and_preprocess_data(variant, file)
            IN  /\ df' = r.df
                /\ parses' = r.parses
                /\ df_raw' = r.raw
                /\ cache' = IF r.status = "ok"
                            THEN [hit |-> TRUE, src |-> file, at |-> run, df |-> r.df]
                            ELSE cache
                /\ pc' = IF r.status # "ok" THEN r.status
                         ELSE IF r.df.rows = <<>> THEN "empty" ELSE "loaded"
    /\ UNCHANGED <<variant, file, sel, df_filtered, charts, views, run, last>>

\* the selections the user can make: the default with at most MaxDeselect options removed
Selections(v, d) ==
    LET pairs == UNION {{<<c, x>> : x \in Unique(d, c)} : c \in FilterCols(v)}
    IN  {[multi |-> [c \in FilterCols(v) |-> {x \in Unique(d, c) : <<c, x>> \notin D}],
          range |-> rg] : D \in UpTo(pairs, MaxDeselect), rg \in SliderValues(v, d)}

\* the widgets return s; df_filtered is computed; an empty result warns and stops
FilterWith(s) ==
    /\ pc = "loaded"
    /\ sel' = s
    /\ df_filtered' = ApplyFilters(variant, df, s)
    /\ pc' = IF ApplyFilters(variant, df, s).rows = <<>> THEN "nodata" ELSE "filtered"
    /\ UNCHANGED <<variant, file, df, charts, views, parses, df_raw, cache, run, last>>

Filter == \E s \in Selections(variant, df) : FilterWith(s)

FilterDefault == FilterWith(DefaultSel(variant, df))

\* a caller that draws the chart whatever the aggregate holds
View_AlwaysChart(a) == "chart"

\* a caller of the aggregator: `if not df_x.empty:` the chart, `else:` st.info
View(a) == IF a.status = "empty" THEN "info" ELSE "chart"

\* the two-column groupbys of the entrepreneurship dashboard: the name of the chart
\* and the two key columns
CrossCharts(v) ==
    IF v = "empr"
    THEN { <<"cross_motive_antiguedad", "Antiguedad_Negocio_Rango", "Motivo_Inicio">>,
           <<"creador_clase_te", "CLASE_TE_Label", "Creador_Negocio">>,
           <<"motivo_area", "AREA_Label", "Motivo_Inicio">> }
    ELSE {}

\* df_filtered.groupby([c1, c2])['F_EXP'].sum().reset_index() is empty: no record
\* has both keys (the restriction of the third chart to the ten largest areas keeps
\* every record of a row-set with at most ten areas)
CrossEmpty(d, c1, c2) == \A i \in DOMAIN d.rows : IsNaN(d.rows[i][c1]) \/ IsNaN(d.rows[i][c2])

\* a caller of a two-column groupby; the first one passes
\* df_antiguedad_rango['Antiguedad_Negocio_Rango'] as category_orders, a KeyError
\* when df_antiguedad_rango is the empty result
CrossView(d, x, cs) ==
    IF CrossEmpty(d, x[2], x[3]) THEN "info"
    ELSE IF x[1] = "cross_motive_antiguedad" /\ cs["Antiguedad_Negocio_Rango"].status = "empty"
    THEN "keyerror"
    ELSE "chart"

\* the chart sections: one aggregation per chart, each followed by its caller's test
\* of the result, then the two-column charts
Render ==
    /\ pc = "filtered"
    /\ LET cs == [c \in ChartCols(variant) |-> prepare_data_for_plotly(df_filtered, c)]
           xs == CrossCharts(variant)
           vs == [n \in ChartCols(variant) \cup {x[1] : x \in xs} |->
                    IF n \in ChartCols(variant) THEN View(cs[n])
                    ELSE CrossView(df_filtered, CHOOSE x \in xs : x[1] = n, cs)]
       IN  /\ charts' = cs
           /\ views' = vs
           /\ pc' = IF \/ \E c \in DOMAIN cs : cs[c].status = "crash"
                       \/ \E n \in DOMAIN vs : vs[n] = "keyerror"
                    THEN "crash" ELSE "done"
    /\ UNCHANGED <<variant, file, df, sel, df_filtered, parses, df_raw, cache, run, last>>

Next == Load \/ Filter \/ Render

\* the run starts on some file of the family: one of the column sets, a delimiter
\* of seps, at most MaxN(C) rows, every cell drawn from the profile
InitFamily(v, prof, colSets, MaxN(_), seps) ==
    \E C \in colSets : \E n \in 0..MaxN(C) : \E sp \in seps : \E rz \in Ragged(prof) :
        \E rs \in [1..n -> RowSet(C, prof)] :
            InitWith(v, [exists |-> TRUE, sep |-> sp, raises |-> rz, cols |-> C, rows |-> rs])

\* Spec is one run of a script body from the call of the loader on, each section
\* taken as it is written; whether the script compiles is part of SpecRun
Init ==
    \E v \in Variants :
        \/ InitFamily(v, "run", UpTo(required_cols(v), MaxCells),
                      LAMBDA C : RowsWithin(C, MaxCells), {","})
        \/ InitWith(v, NoFile)

Spec == Init /\ [][Next]_vars

\* load_and_preprocess_data applied to every file of the "load" family
InitLoad ==
    \E v \in Variants :
        InitFamily(v, "load", UpTo(required_cols(v), MaxLoadCells),
                   LAMBDA C : RowsWithin(C, MaxLoadCells), {",", ";"})

SpecLoad == InitLoad /\ [][Load]_vars

\* the loading stage applied to every file of the "parse" family: either delimiter,
\* lines that fail to parse, columns nobody asks for, and the missing file
InitParse ==
    \E v \in Variants :
        \/ InitFamily(v, "parse", UpTo(required_cols(v) \cup {OtherCol}, MaxParseCells),
                      LAMBDA C : RowsWithin(C, MaxParseCells), {",", ";"})
        \/ InitWith(v, NoFile)

SpecParse == InitParse /\ [][Load]_vars

(***************************************************************************)
(* The process: Streamlit compiles and runs the script once per            *)
(* interaction; the cache entry outlives the run; the CSV on disk may      *)
(* change between runs.                                                    *)
(***************************************************************************)
\* the process serves at most MaxRuns runs
MaxRuns == 2

\* a file of the "session" family holds at most MaxSessionRows rows
MaxSessionRows == 1

\* the script compiles: Micronegocio_3.py holds the bare lines `---`, which are
\* no Python statement
Compiles(v) == v # "ventas"

\* the ways a run ends
Terminal == {"fatal", "empty", "nodata", "done", "crash", "nostart"}

SessionCols(v) ==
    CASE v = "ident"  -> {{"P35", "F_EXP"}, {"P241"}}
      [] v = "empr"   -> {{"P3050", "F_EXP"}}
      [] v = "ventas" -> {{"P3072"}}

\* the files the script may find at CSV_PATH
SessionFiles(v) ==
    {NoFile} \cup
    UNION { { [exists |-> TRUE, sep |-> ",", raises |-> {}, cols |-> C, rows |-> rs] :
                rs \in UNION {[1..n -> RowSet(C, "session")] : n \in 0..MaxSessionRows} }
            : C \in SessionCols(v) }

\* Streamlit compiles the script and starts executing its body
Start ==
    /\ pc = "idle"
    /\ pc' = IF Compiles(variant) THEN "start" ELSE "nostart"
    /\ UNCHANGED <<variant, file, df, sel, df_filtered, charts, views, parses, df_raw, cache, run, last>>

\* the next interaction: the script is run again from the top, in the same process
Rerun ==
    /\ pc \in Terminal
    /\ run < MaxRuns
    /\ pc' = "idle"
    /\ run' = run + 1
    /\ last' = pc
    /\ df' = EmptyDF /\ sel' = NoSel /\ df_filtered' = EmptyDF /\ charts' = <<>>
    /\ views' = <<>>
    /\ parses' = <<>> /\ df_raw' = EmptyDF
    /\ UNCHANGED <<variant, file, cache>>

\* between two runs the CSV at CSV_PATH is replaced
FileChanges ==
    /\ pc = "idle"
    /\ run > 1
    /\ file = cache.src \/ ~cache.hit
    /\ \E f \in SessionFiles(variant) : f # file /\ file' = f
    /\ UNCHANGED <<variant, pc, df, sel, df_filtered, charts, views, parses, df_raw, cache, run, last>>

NextRun == Start \/ Load \/ Filter \/ Render \/ Rerun \/ FileChanges

InitRun ==
    \E v \in Variants : \E f \in SessionFiles(v) :
        /\ variant = v /\ file = f /\ pc = "idle"
        /\ df = EmptyDF /\ sel = NoSel /\ df_filtered = EmptyDF /\ charts = <<>>
        /\ views = <<>>
        /\ parses = <<>> /\ df_raw = EmptyDF /\ cache = NoCache
        /\ run = 1 /\ last = "none"

SpecRun == InitRun /\ [][NextRun]_vars

\* the aggregator applied to every row-set of the "agg" family
InitAgg ==
    \/ InitFamily("empr", "agg", {{"P3050", "F_EXP"}, {"P3050"}}, LAMBDA C : MaxAggRows, {","})
    \/ InitFamily("ident", "agg", {{"P241", "F_EXP"}}, LAMBDA C : MaxAggRows, {","})

\* the grouping columns of the three dashboards together: the ones of the other
\* dashboards are absent from this one's row-set
AnyChartCols == UNION {ChartCols(v) : v \in Variants}

\* the aggregator called on the filtered row-set with any of these column names
Aggregate ==
    /\ pc = "filtered"
    /\ \E c \in AnyChartCols :
         /\ charts' = [x \in {c} |-> prepare_data_for_plotly(df_filtered, c)]
         /\ views' = [x \in {c} |-> View(prepare_data_for_plotly(df_filtered, c))]
         /\ pc' = IF prepare_data_for_plotly(df_filtered, c).status = "crash"
                  THEN "crash" ELSE "aggregated"
    /\ UNCHANGED <<variant, file, df, sel, df_filtered, parses, df_raw, cache, run, last>>

NextAgg == Load \/ FilterDefault \/ Render \/ Aggregate

SpecAgg == InitAgg /\ [][NextAgg]_vars

(***************************************************************************)
(* Properties of the aggregator (checked under SpecAgg).                   *)
(***************************************************************************)
FracAdd(a, b) == [num |-> a.num * b.den + b.num * a.den, den |-> a.den * b.den]

\* the sum of the Porcentaje column of an aggregate
RECURSIVE PorcentajeSum(_)
PorcentajeSum(rows) ==
    IF rows = <<>> THEN [num |-> 0, den |-> 1]
    ELSE FracAdd(Head(rows).Porcentaje, PorcentajeSum(Tail(rows)))

\* the sum of the F_EXP_Sum column of an aggregate
RECURSIVE WeightTotal(_)
WeightTotal(rows) == IF rows = <<>> THEN 0 ELSE Head(rows).F_EXP_Sum + WeightTotal(Tail(rows))

FracIs(a, x) == a.num = x * a.den

Rendered == pc = "done"

\* C1: for every row-set and every grouping column, the percentages the aggregator
\* returns sum to 100 whenever the total of the summed weights is nonzero, and to 0
\* when that total is zero.
C1_PercentagesSumTo100 ==
    Rendered =>
        \A c \in DOMAIN charts :
            charts[c].status = "ok" =>
                IF WeightTotal(charts[c].rows) # 0
                THEN FracIs(PorcentajeSum(charts[c].rows), 100)
                ELSE FracIs(PorcentajeSum(charts[c].rows), 0)

\* the weight a row contributes to a sum (a missing weight contributes nothing)
WeightOf(r) == IF IsNum(r["F_EXP"]) THEN r["F_EXP"].n ELSE 0

\* the summed weight of the rows of d whose column c holds x
RECURSIVE GroupWeight(_, _, _)
GroupWeight(rows, c, x) ==
    IF rows = <<>> THEN 0
    ELSE (IF Head(rows)[c] = x THEN WeightOf(Head(rows)) ELSE 0) + GroupWeight(Tail(rows), c, x)

\* the row-set of the scenario: weights 2, 3, 5 with creator codes 1, 2, 99
ScenarioRows(d) ==
    /\ "P3050" \in d.cols
    /\ Len(d.rows) = 3
    /\ \E i, j, l \in 1..3 :
         /\ d.rows[i]["P3050"] = NumV(1) /\ d.rows[i]["F_EXP"] = NumV(2)
         /\ d.rows[j]["P3050"] = NumV(2) /\ d.rows[j]["F_EXP"] = NumV(3)
         /\ d.rows[l]["P3050"] = NumV(99) /\ d.rows[l]["F_EXP"] = NumV(5)

HasGroup(a, x, pct) ==
    \E i \in DOMAIN a.rows : a.rows[i].g = x /\ FracIs(a.rows[i].Porcentaje, pct)

\* the scenario's outcome: three groups of 20%, 30% and 50%, the 50% one "Desconocido"
ScenarioOutcome(a) ==
    /\ a.status = "ok"
    /\ Len(a.rows) = 3
    /\ HasGroup(a, StrV(p3050_map[1]), 20)
    /\ HasGroup(a, StrV(p3050_map[2]), 30)
    /\ HasGroup(a, Desconocido, 50)

\* C2: for every row-set the aggregator returns, for each distinct non-missing value
\* of the grouping column, the sum of the weights of the rows carrying that value and
\* a percentage equal to 100 x that sum / the sum over all groups; rows with weights
\* 2, 3, 5 and codes 1, 2, 99 aggregated by the recoded creator label give three
\* groups of 20%, 30% and 50%, the 50% group being "Desconocido".
C2_GroupSumsAndPercentages ==
    Rendered =>
        /\ \A c \in DOMAIN charts :
             charts[c].status = "ok" =>
                 \A x \in {v \in Unique(df_filtered, c) : ~IsNaN(v)} :
                     \E i \in DOMAIN charts[c].rows :
                         LET a == charts[c].rows[i]
                             total == WeightTotal(charts[c].rows)
                         IN  /\ a.g = x
                             /\ a.F_EXP_Sum = GroupWeight(df_filtered.rows, c, x)
                             /\ total # 0 =>
                                  a.Porcentaje.num * total = 100 * a.F_EXP_Sum * a.Porcentaje.den
        /\ (variant = "empr" /\ ScenarioRows(df_filtered)) =>
               ScenarioOutcome(charts["Creador_Negocio"])

\* the scenario of C2 alone: it is reached, and the aggregator gives 20%, 30%, 50%
ScenarioHolds ==
    (Rendered /\ variant = "empr" /\ ScenarioRows(df_filtered)) =>
        ScenarioOutcome(charts["Creador_Negocio"])

ScenarioReached == Rendered /\ variant = "empr" /\ ScenarioRows(df_filtered)

\* with a positive total the percentages do sum to 100, with a zero total to 0
PositiveTotalSumsTo100 ==
    Rendered =>
        \A c \in DOMAIN charts :
            charts[c].status = "ok" =>
                /\ WeightTotal(charts[c].rows) > 0 => FracIs(PorcentajeSum(charts[c].rows), 100)
                /\ WeightTotal(charts[c].rows) <= 0 => FracIs(PorcentajeSum(charts[c].rows), 0)

(***************************************************************************)
(* Properties of load_and_preprocess_data (checked under SpecLoad).        *)
(***************************************************************************)
\* the load returned a dataframe ("empty": every row was dropped, the script stops)
Loaded == pc \in {"loaded", "empty"}

\* the recoded columns of a variant: source column, label column, mapping table
RecodeTable(v) ==
    CASE v = "ident"  -> { <<"P35", "Género", p35_map>>,
                           <<"GRUPOS12", "Industria_Label", grupos12_map>>,
                           <<"P3031", "Tiene_Ayuda", p3031_map>>,
                           <<"CLASE_TE", "CLASE_TE_Label", clase_te_map>> }
      [] v = "empr"   -> { <<"P3050", "Creador_Negocio", p3050_map>>,
                           <<"P3051", "Motivo_Inicio", p3051_map>>,
                           <<"P639", "Antiguedad_Negocio_Rango", p639_map>>,
                           <<"P3052", "Fuente_Recursos", p3052_map>>,
                           <<"CLASE_TE", "CLASE_TE_Label", clase_te_map>> }
      [] v = "ventas" -> {}

\* C3: recoding is total: for every code column that has a mapping table and every raw
\* value of it (a mapped code, an unmapped number, a non-numeric value, a missing
\* value), the label column of every record of the preprocessed dataset holds the
\* mapped label or the literal "Desconocido", never a missing value.
C3_RecodingTotal ==
    Loaded =>
        \A t \in RecodeTable(variant) :
            t[1] \in file.cols =>
                \A i \in DOMAIN df.rows :
                    LET raw == df.rows[i][t[1]]
                        lab == df.rows[i][t[2]]
                    IN  IF IsNum(raw) /\ raw.n \in 1..Len(t[3])
                        THEN lab = StrV(t[3][raw.n])
                        ELSE lab = Desconocido

\* a preprocessed dataset with a non-numeric, a missing or an unmapped code labelled
\* "Desconocido" next to a mapped one
C3_Witness ==
    /\ pc = "loaded"
    /\ \E t \in RecodeTable(variant) :
         /\ t[1] \in file.cols
         /\ \E i, j \in DOMAIN df.rows :
              /\ ~IsNum(df.rows[i][t[1]]) /\ df.rows[i][t[2]] = Desconocido
              /\ df.rows[j][t[1]] = NumV(1) /\ df.rows[j][t[2]] = StrV(t[3][1])

\* the label columns of a variant with the source column of each
LabelTable(v) ==
    CASE v = "ident"  -> { <<"P35", "Género">>, <<"GRUPOS12", "Industria_Label">>,
                           <<"P241", "Edad_Grupo">>, <<"P3034", "Antiguedad_Negocio_Grupo">>,
                           <<"P3031", "Tiene_Ayuda">>, <<"AREA", "AREA_Label">>,
                           <<"CLASE_TE", "CLASE_TE_Label">> }
      [] v = "empr"   -> { <<"P3050", "Creador_Negocio">>, <<"P3051", "Motivo_Inicio">>,
                           <<"P639", "Antiguedad_Negocio_Rango">>,
                           <<"P3052", "Fuente_Recursos">>, <<"CLASE_TE", "CLASE_TE_Label">>,
                           <<"AREA", "AREA_Label">>, <<"COD_DEPTO", "Departamento">> }
      [] v = "ventas" -> { <<"AREA", "AREA_Label">> }

\* C4: for every subset of the required columns that the file contains (as long as the
\* load succeeds), every derived label column that later stages read exists in the
\* preprocessed dataset, and a label column whose source column is absent holds the
\* constant "No Disponible" in every record.
C4_LabelColumnsExist ==
    Loaded =>
        \A t \in LabelTable(variant) :
            /\ t[2] \in df.cols
            /\ \A i \in DOMAIN df.rows : t[2] \in DOMAIN df.rows[i]
            /\ t[1] \notin file.cols =>
                 \A i \in DOMAIN df.rows : df.rows[i][t[2]] = NoDisponible

\* a preprocessed dataset with one label column synthesized and another one recoded
C4_Witness ==
    /\ pc = "loaded"
    /\ \E t, u \in LabelTable(variant) :
         /\ t[1] \notin file.cols /\ df.rows[1][t[2]] = NoDisponible
         /\ u[1] \in file.cols /\ df.rows[1][u[2]] # NoDisponible

\* the first row of the file that carries the identifier of file row j
FirstWith(j) ==
    CHOOSE l \in DOMAIN file.rows :
        /\ file.rows[l]["DIRECTORIO"] = file.rows[j]["DIRECTORIO"]
        /\ \A m \in 1..(l - 1) : file.rows[m]["DIRECTORIO"] # file.rows[j]["DIRECTORIO"]

\* the value the loader keeps in a source column for the cell x of the file
KeptCell(v, c, x) ==
    IF v = "ventas" /\ c = "F_EXP" THEN FillNa(ToNumeric(x), NumV(1))
    ELSE IF v = "ventas" /\ c \in {"P3057", "P3061", "P3064", "P3072"}
    THEN FillNa(ToNumeric(x), NumV(0))
    ELSE x

\* the record r is the file row fr after preprocessing
FromRow(r, fr) == \A c \in file.cols : r[c] = KeptCell(variant, c, fr[c])

\* C5: after load_and_preprocess_data, whenever the DIRECTORIO column is present, no
\* two records share a DIRECTORIO value, and the record kept for each identifier is
\* the first row of the input file that carries it.
C5_DedupFirstWins ==
    (Loaded /\ "DIRECTORIO" \in file.cols) =>
        /\ \A i, j \in DOMAIN df.rows :
             df.rows[i]["DIRECTORIO"] = df.rows[j]["DIRECTORIO"] => i = j
        /\ \A i \in DOMAIN df.rows :
             \E j \in DOMAIN file.rows :
                 /\ file.rows[j]["DIRECTORIO"] = df.rows[i]["DIRECTORIO"]
                 /\ FromRow(df.rows[i], file.rows[FirstWith(j)])

\* two file rows with one identifier and different cells, of which one record is kept
C5_Witness ==
    /\ pc = "loaded"
    /\ "DIRECTORIO" \in file.cols
    /\ Len(file.rows) = 2
    /\ file.rows[1]["DIRECTORIO"] = file.rows[2]["DIRECTORIO"]
    /\ file.rows[1] # file.rows[2]
    /\ Len(df.rows) = 1
    /\ FromRow(df.rows[1], file.rows[1])
    /\ ~FromRow(df.rows[1], file.rows[2])

\* C6: in all three dashboard variants every record of the preprocessed dataset has a
\* defined numeric weight F_EXP: it is 1 for every record when the source file has no
\* F_EXP column, and no record is left with a missing or non-numeric weight when the
\* column is present.
C6_WeightDefined ==
    Loaded =>
        /\ "F_EXP" \in df.cols
        /\ \A i \in DOMAIN df.rows : IsNum(df.rows[i]["F_EXP"])
        /\ "F_EXP" \notin file.cols => \A i \in DOMAIN df.rows : df.rows[i]["F_EXP"] = NumV(1)

\* what holds of the weight in every variant: the column exists, and it is the
\* constant 1 when the file has none
WeightDefaultsToOne ==
    Loaded =>
        /\ "F_EXP" \in df.cols
        /\ "F_EXP" \notin file.cols => \A i \in DOMAIN df.rows : df.rows[i]["F_EXP"] = NumV(1)
        /\ variant = "ventas" => \A i \in DOMAIN df.rows : IsNum(df.rows[i]["F_EXP"])

\* the lower edges of the bins of the two binned columns
edges_edad == <<0, 25, 35, 45, 55, 65>>

edges_antiguedad == <<0, 12, 36, 60, 120, 240>>

\* the bucket column dst gives the numeric column num exactly one of the labels, and
\* a value equal to a lower edge gets that edge's label
BinnedRight(r, num, dst, edges, labels) ==
    /\ IsNum(r[num])
    /\ \E k \in DOMAIN labels : r[dst] = StrV(labels[k])
    /\ \A k \in DOMAIN edges : r[num].n = edges[k] => r[dst] = StrV(labels[k])

\* C7: in the identification variant, binning of age (P241) and of business age in
\* months (P3034) is total and exclusive: every record kept after preprocessing whose
\* value is numeric is assigned exactly one of the six bin labels, and a value equal to
\* a bin's lower edge (age 25, 36 months) receives that bin's label, not the previous one.
C7_BinningTotal ==
    (variant = "ident" /\ Loaded) =>
        \A i \in DOMAIN df.rows :
            /\ "P241" \in file.cols =>
                 BinnedRight(df.rows[i], "Edad", "Edad_Grupo", edges_edad, labels_edad)
            /\ "P3034" \in file.cols =>
                 BinnedRight(df.rows[i], "Antiguedad_Meses", "Antiguedad_Negocio_Grupo",
                             edges_antiguedad, labels_antiguedad)

\* what holds of the binning: a value that is not negative gets exactly one label,
\* the label of the lower edge it equals
NonNegativeBinned ==
    (variant = "ident" /\ Loaded) =>
        \A i \in DOMAIN df.rows :
            /\ ("P241" \in file.cols /\ df.rows[i]["Edad"].n >= 0) =>
                 BinnedRight(df.rows[i], "Edad", "Edad_Grupo", edges_edad, labels_edad)
            /\ ("P3034" \in file.cols /\ df.rows[i]["Antiguedad_Meses"].n >= 0) =>
                 BinnedRight(df.rows[i], "Antiguedad_Meses", "Antiguedad_Negocio_Grupo",
                             edges_antiguedad, labels_antiguedad)

\* C8: in the identification variant, every age at or above 65 is labelled '65+' and
\* every business age at or above 240 months is labelled '20+ años', including the
\* observed maximum itself (the final bin edge lies past the observed maximum).
C8_TopBin ==
    (variant = "ident" /\ Loaded) =>
        \A i \in DOMAIN df.rows :
            /\ ("P241" \in file.cols /\ df.rows[i]["Edad"].n >= 65) =>
                 df.rows[i]["Edad_Grupo"] = StrV("65+")
            /\ ("P3034" \in file.cols /\ df.rows[i]["Antiguedad_Meses"].n >= 240) =>
                 df.rows[i]["Antiguedad_Negocio_Grupo"] = StrV("20+ años")

\* a preprocessed dataset whose largest age (at least 65) is labelled '65+' and whose
\* largest business age (at least 240 months) is labelled '20+ años'
C8_Witness ==
    /\ variant = "ident"
    /\ pc = "loaded"
    /\ {"P241", "P3034"} \subseteq file.cols
    /\ \E i \in DOMAIN df.rows :
         /\ df.rows[i]["Edad"] = ColMax(df, "Edad")
         /\ df.rows[i]["Edad"].n >= 65
         /\ df.rows[i]["Edad_Grupo"] = StrV("65+")
    /\ \E i \in DOMAIN df.rows :
         /\ df.rows[i]["Antiguedad_Meses"] = ColMax(df, "Antiguedad_Meses")
         /\ df.rows[i]["Antiguedad_Meses"].n >= 240
         /\ df.rows[i]["Antiguedad_Negocio_Grupo"] = StrV("20+ años")

(***************************************************************************)
(* Properties of the filter stage (checked under Spec).                    *)
(***************************************************************************)
Filtered == pc \in {"filtered", "nodata"}

\* the rows that pass the membership tests of the columns S alone
FilterOn(rows, S, s) == FilterSeq(rows, LAMBDA r : \A c \in S : r[c] \in s.multi[c])

\* the rows that pass the range test of the sales dashboard
FilterRange(rows, s) == FilterSeq(rows, LAMBDA r : InRange(variant, r, s))

\* the row r passes every per-column test of the selection
PassesAll(r, s) == (\A c \in FilterCols(variant) : r[c] \in s.multi[c]) /\ InRange(variant, r, s)

\* C9: filtering is intersective: for every dataset and every pair of per-column
\* selections selA, selB, the row-set obtained by applying both membership tests at
\* once equals the row-set obtained by filtering on A and then filtering that result on
\* B (in either order), and a record is in the filtered set exactly when it passes
\* every per-column test.
C9_FilterIntersective ==
    Filtered =>
        /\ \A A \in SUBSET FilterCols(variant) :
             df_filtered.rows =
                 FilterRange(FilterOn(FilterOn(df.rows, A, sel), FilterCols(variant) \ A, sel), sel)
        /\ \A r \in Range(df.rows) : r \in Range(df_filtered.rows) <=> PassesAll(r, sel)

\* two selections that each exclude a record the other one keeps
C9_Witness ==
    /\ Filtered
    /\ \E A, B \in FilterCols(variant) : \E i, j \in DOMAIN df.rows :
         /\ A # B
         /\ df.rows[i][A] \notin sel.multi[A] /\ df.rows[i][B] \in sel.multi[B]
         /\ df.rows[j][B] \notin sel.multi[B] /\ df.rows[j][A] \in sel.multi[A]

\* C10: with every control left at its default (each multi-select holding all distinct
\* labels present, the slider of the sales variant holding its default range), the
\* filtered row-set equals the whole preprocessed dataset in all three variants, for
\* every dataset including one whose income values are all equal.
C10_DefaultKeepsAll ==
    (Filtered /\ sel = DefaultSel(variant, df)) => df_filtered = df

\* the sales dashboard at its defaults on a dataset of two records with one income
C10_Witness ==
    /\ pc = "filtered"
    /\ variant = "ventas"
    /\ sel = DefaultSel(variant, df)
    /\ Len(df.rows) = 2
    /\ df.rows[1]["P3072"] = df.rows[2]["P3072"]
    /\ df_filtered = df

(***************************************************************************)
(* Properties of the income slider (checked under Spec).                   *)
(***************************************************************************)
\* the records that pass the area multi-select
AreaFiltered == FilterSeq(df.rows, LAMBDA r : MaskAll(variant, r, sel))

\* the records of rows with lo <= P3072 <= hi
Between(rows, lo, hi) == FilterSeq(rows, LAMBDA r : lo <= r["P3072"].n /\ r["P3072"].n <= hi)

\* C11: in the sales variant, for every range (lo, hi) the user can select on the
\* income slider, every record of the filtered row-set has lo <= P3072 <= hi, and every
\* record of the area-filtered set with lo <= P3072 <= hi is in the filtered row-set.
C11_RangeInclusive ==
    (variant = "ventas" /\ Filtered) =>
        df_filtered.rows = Between(AreaFiltered, sel.range[1], sel.range[2])

\* what holds of the range filter: it is the inclusive test for every selected range
\* other than (0, 0)
RangeInclusiveUnlessZero ==
    (variant = "ventas" /\ Filtered /\ sel.range # <<0, 0>>) =>
        df_filtered.rows = Between(AreaFiltered, sel.range[1], sel.range[2])

\* both handles on a lowest income of 0 while a record has a higher income
RangeZeroSelected ==
    /\ variant = "ventas" /\ Filtered
    /\ sel.range = <<0, 0>>
    /\ \E i \in DOMAIN df.rows : df.rows[i]["P3072"].n > 0

(***************************************************************************)
(* Properties of the 'no data matches' path (checked under Spec).          *)
(***************************************************************************)
\* the widgets have returned their values in this run
Selected == sel # NoSel

\* the record r is one the selection s asks for
Matches(r, s) ==
    /\ \A c \in FilterCols(variant) : r[c] \in s.multi[c]
    /\ variant = "ventas" => (s.range[1] <= r["P3072"].n /\ r["P3072"].n <= s.range[2])

SomeMultiSelectEmpty == \E c \in FilterCols(variant) : sel.multi[c] = {}

\* the run stopped on the warning: zero rows, no aggregate, no chart, no exception
NoDataHalt == pc = "nodata" /\ df_filtered.rows = <<>> /\ charts = <<>>

\* C12: in every variant, a run in which some multi-select is empty (or the selections
\* match no record) yields a filtered row-set of zero rows, shows the 'no data matches'
\* warning and stops that run before any aggregation or chart is produced, without
\* raising an exception.
C12_NoDataHalt ==
    (Selected /\ (SomeMultiSelectEmpty \/ \A i \in DOMAIN df.rows : ~Matches(df.rows[i], sel)))
        => NoDataHalt

\* what holds of the path: an empty multi-select always ends the run on the warning,
\* and so does a selection matching no record unless the slider holds (0, 0)
EmptySelectionHalts ==
    (Selected /\ (\/ SomeMultiSelectEmpty
                  \/ /\ sel.range # <<0, 0>> \/ variant # "ventas"
                     /\ \A i \in DOMAIN df.rows : ~Matches(df.rows[i], sel)))
        => NoDataHalt

\* a run stopped on the warning because one multi-select was emptied
EmptySelectionReached ==
    /\ NoDataHalt /\ Selected
    /\ SomeMultiSelectEmpty
    /\ df.rows # <<>>

(***************************************************************************)
(* Properties of the loading stage (checked under SpecParse).              *)
(***************************************************************************)
\* load_and_preprocess_data has been called in this run
LoadDone == pc # "start"

\* the header of the file is semicolon-delimited: under comma splitting it is one
\* column named by the whole line, which is no required column
SemicolonHeader(f) == f.exists /\ f.sep = ";" /\ Cardinality(f.cols) >= 2

\* the comma parse of the file shows a required column
CommaYields(v, f) ==
    /\ "," \notin f.raises
    /\ f.sep = "," \/ Cardinality(f.cols) <= 1
    /\ f.cols \cap required_cols(v) # {}

\* the order and number of the parse attempts: comma first, semicolon only after a
\* comma attempt that yielded nothing, each at most once
ParseOrder ==
    /\ Len(parses) <= 2
    /\ Len(parses) >= 1 => parses[1] = ","
    /\ Len(parses) = 2 => (parses[2] = ";" /\ ~CommaYields(variant, file))

\* the frame of the file's own columns restricted to the required ones
RequiredFrame(v, f) ==
    [cols |-> f.cols \cap required_cols(v),
     rows |-> [i \in DOMAIN f.rows |-> [c \in f.cols \cap required_cols(v) |-> f.rows[i][c]]]]

\* the loading stage took the semicolon parse and handed its frame to preprocessing
ViaSemicolon ==
    /\ parses = <<",", ";">>
    /\ pc # "fatal"
    /\ df_raw.cols = RequiredFrame(variant, file).cols
    /\ df_raw.rows = RequiredFrame(variant, file).rows

\* C13 as stated: the loader tries the comma delimiter first and the semicolon
\* delimiter only after the comma attempt yielded no required column (or raised); a
\* file whose header is semicolon-delimited and shows no required column under comma
\* splitting is loaded successfully through the semicolon attempt; one load performs at
\* most one parse per delimiter, so at most two parse attempts in total.
C13_AsStated ==
    LoadDone => /\ ParseOrder
                /\ SemicolonHeader(file) => ViaSemicolon

\* C13: the loader tries the comma delimiter first and the semicolon delimiter only
\* after the comma attempt yielded no required column (or raised); a file whose header
\* is semicolon-delimited, that holds a required column and a data row and parses under
\* the semicolon, passes the loading stage through the semicolon attempt; one load
\* performs at most one parse per delimiter, so at most two parse attempts in total.
C13_DelimiterFallback ==
    LoadDone =>
        /\ ParseOrder
        /\ ( /\ SemicolonHeader(file)
             /\ file.cols \cap required_cols(variant) # {}
             /\ file.rows # <<>>
             /\ ";" \notin file.raises ) => ViaSemicolon

\* a semicolon-delimited file of two columns and a data row went through both attempts
C13_Witness ==
    /\ LoadDone
    /\ SemicolonHeader(file)
    /\ file.rows # <<>>
    /\ ViaSemicolon
    /\ pc = "loaded"

\* the semicolon parse of the file shows a required column
SemicolonYields(v, f) ==
    /\ ";" \notin f.raises
    /\ f.sep = ";" \/ Cardinality(f.cols) <= 1
    /\ f.cols \cap required_cols(v) # {}

\* the three fatal conditions of the loading stage
FatalConditions(v, f) ==
    \/ ~f.exists
    \/ ~CommaYields(v, f) /\ ~SemicolonYields(v, f)
    \/ f.rows = <<>>

\* the run stopped in the loading stage: nothing was handed to preprocessing and
\* nothing was filtered or charted
FatalHalt ==
    /\ pc = "fatal"
    /\ df_raw = EmptyDF /\ df = EmptyDF
    /\ sel = NoSel /\ df_filtered = EmptyDF /\ charts = <<>>

\* the loading stage handed the file's records, with the required columns, on
LoadStageOk ==
    /\ pc # "fatal"
    /\ df_raw.rows # <<>>
    /\ df_raw.cols = RequiredFrame(variant, file).cols
    /\ df_raw.rows = RequiredFrame(variant, file).rows

\* C14: a load ends in the fatal state (user-facing error shown, run stopped, no
\* preprocessing, filtering or chart in that run) exactly when the input file does not
\* exist, or neither the comma nor the semicolon parse yields any required column, or
\* the resulting row-set is empty; in every other case the load succeeds.
C14_FatalExactly ==
    LoadDone => IF FatalConditions(variant, file) THEN FatalHalt ELSE LoadStageOk

\* a file that exists and has records, fatal because neither parse shows a required
\* column
C14_Witness ==
    /\ FatalHalt
    /\ file.exists /\ file.rows # <<>>
    /\ parses = <<",", ";">>

\* the three conditions, each reached on its own
FatalByMissingFile == FatalHalt /\ ~file.exists

FatalByEmptyRows == FatalHalt /\ file.exists /\ CommaYields(variant, file) /\ file.rows = <<>>

\* the header, as parsed by the attempt that is taken, holds at least one but not all
\* of the required columns
PartialHeader(v, f) ==
    /\ f.exists
    /\ CommaYields(v, f) \/ SemicolonYields(v, f)
    /\ ~(required_cols(v) \subseteq f.cols)

\* the frame handed to preprocessing holds the required columns present and no other
OnlyRequiredRetained ==
    /\ pc # "fatal"
    /\ df_raw.cols = file.cols \cap required_cols(variant)
    /\ \A i \in DOMAIN df_raw.rows : DOMAIN df_raw.rows[i] = file.cols \cap required_cols(variant)

\* C15 as stated: when the parsed header contains at least one but not all required
\* columns, the load is not fatal and the row-set handed to preprocessing has exactly
\* the columns that are both required and present in the file.
C15_AsStated ==
    (LoadDone /\ PartialHeader(variant, file)) => OnlyRequiredRetained

\* C15: when the parsed header contains at least one but not all required columns and
\* the file has at least one data row, the load is not fatal and the row-set handed to
\* preprocessing has exactly the columns that are both required and present in the
\* file (no other source column is retained).
C15_ColumnIntersection ==
    (LoadDone /\ PartialHeader(variant, file) /\ file.rows # <<>>) =>
        OnlyRequiredRetained /\ df_raw.rows = RequiredFrame(variant, file).rows

\* a file with one required column, a column nobody asks for and a record
C15_Witness ==
    /\ LoadDone
    /\ PartialHeader(variant, file)
    /\ OtherCol \in file.cols
    /\ file.rows # <<>>
    /\ OnlyRequiredRetained
    /\ OtherCol \notin df_raw.cols

(***************************************************************************)
(* Properties of the process (checked under SpecRun).                      *)
(***************************************************************************)
\* a run after the one whose load succeeded has passed its call of the loader
LaterRunLoaded == cache.hit /\ run > cache.at /\ pc \notin {"idle", "start", "nostart"}

\* once stored, the cache entry stays as it is and no parse is added
CacheKept == cache.hit => (cache' = cache /\ parses' \in {parses, <<>>})

\* C16: over any sequence of interactions (reruns) in one process with the same input
\* path, once a load has succeeded the CSV is not parsed again: every later run
\* receives the dataset computed by the first successful load, also when the source
\* file has changed since.
C16_CachedAcrossReruns ==
    /\ [](LaterRunLoaded =>
            /\ parses = <<>>
            /\ df = cache.df
            /\ cache.df = load_and_preprocess_data(variant, cache.src).df)
    /\ [][CacheKept]_vars

\* a later run, after the file was replaced by one that would give another dataset,
\* works on the dataset of the first load without a parse
C16_Witness ==
    /\ LaterRunLoaded
    /\ pc = "done"
    /\ file # cache.src
    /\ load_and_preprocess_data(variant, file).df # cache.df
    /\ df = cache.df
    /\ parses = <<>>

(***************************************************************************)
(* Properties of the aggregator's order and of its empty result (checked   *)
(* under SpecAgg).                                                         *)
(***************************************************************************)
OrderedBuckets == {"Edad_Grupo", "Antiguedad_Negocio_Grupo", "Antiguedad_Negocio_Rango"}

\* the place of the label g in the declared order of the bucket column (0 if none)
CatPos(col, g) ==
    LET order == CategoriesOf(col)
        at == {i \in DOMAIN order : StrV(order[i]) = g}
    IN  IF at = {} THEN 0 ELSE CHOOSE i \in at : TRUE

InCategoryOrder(col, rows) ==
    \A i, j \in DOMAIN rows : i < j => CatPos(col, rows[i].g) < CatPos(col, rows[j].g)

ByPercentage(rows) ==
    \A i, j \in DOMAIN rows : i < j => FracGeq(rows[i].Porcentaje, rows[j].Porcentaje)

\* C17: the aggregator's output rows are sorted by the declared category order when the
\* grouping column is an ordered bucket (Edad_Grupo, Antiguedad_Negocio_Grupo,
\* Antiguedad_Negocio_Rango), independent of the weights, and are sorted by
\* non-increasing percentage for every other grouping column.
C17_SortOrder ==
    Rendered =>
        \A c \in DOMAIN charts :
            charts[c].status = "ok" =>
                IF c \in OrderedBuckets
                THEN InCategoryOrder(c, charts[c].rows)
                ELSE ByPercentage(charts[c].rows)

\* an age aggregate in bucket order whose later bucket has the larger percentage
C17_Witness ==
    /\ Rendered
    /\ "Edad_Grupo" \in DOMAIN charts
    /\ charts["Edad_Grupo"].status = "ok"
    /\ InCategoryOrder("Edad_Grupo", charts["Edad_Grupo"].rows)
    /\ ~ByPercentage(charts["Edad_Grupo"].rows)

\* a creator aggregate of two groups of different percentages, the larger first
SortedByPercentageReached ==
    /\ Rendered
    /\ "Creador_Negocio" \in DOMAIN charts
    /\ charts["Creador_Negocio"].status = "ok"
    /\ Len(charts["Creador_Negocio"].rows) >= 2
    /\ ~FracGeq(charts["Creador_Negocio"].rows[2].Porcentaje,
                charts["Creador_Negocio"].rows[1].Porcentaje)

\* the grouping column c is absent from the row-set d or missing in every record
NothingToGroup(d, c) == c \notin d.cols \/ \A i \in DOMAIN d.rows : IsNaN(d.rows[i][c])

\* the aggregator has returned in this run
Aggregated == pc \in {"aggregated", "done"}

\* C18: the aggregator returns an empty result, without raising, when the grouping
\* column is absent from the row-set or every value of it is missing, and every caller
\* of the aggregator treats an empty result as nothing to render: it shows the
\* informational placeholder and never reads a column of the empty result.
C18_EmptyAggregate ==
    /\ \A c \in DOMAIN charts :
         NothingToGroup(df_filtered, c) => (charts[c].status = "empty" /\ charts[c].rows = <<>>)
    /\ \A c \in DOMAIN charts : charts[c].status = "empty" => views[c] = "info"
    /\ \A n \in DOMAIN views : views[n] # "keyerror"

\* the age chart of a run whose only record has an age below every bucket
C18_Witness ==
    /\ pc = "done"
    /\ df_filtered.rows # <<>>
    /\ "Edad_Grupo" \in df_filtered.cols
    /\ NothingToGroup(df_filtered, "Edad_Grupo")
    /\ charts["Edad_Grupo"].status = "empty"
    /\ views["Edad_Grupo"] = "info"

\* the aggregator called with a column the row-set does not have
AbsentColumnReached ==
    /\ pc = "aggregated"
    /\ \E c \in DOMAIN charts : c \notin df_filtered.cols /\ charts[c].status = "empty"

\* the three outcomes of a run: the halt of a load that gave nothing, the halt on
\* 'no data matches', the success message after the last chart section
Outcomes == {"fatal", "empty", "nodata", "done"}

\* C19: for every input file and every sequence of control selections, each run of each
\* of the three dashboard variants terminates in one of three outcomes: the fatal-load
\* halt, the 'no data matches' halt, or the final success message after all chart
\* sections; no run ends with an unhandled exception or fails to start.
C19_ThreeOutcomes == pc \in Terminal => pc \in Outcomes

\* the ways a run ends otherwise
FailsToStart == variant = "ventas" /\ pc = "nostart"

BinningRaises == variant = "ident" /\ pc = "crash" /\ sel = NoSel

AggregationRaises == pc = "crash" /\ sel # NoSel /\ "F_EXP" \in df.obj

\* what holds of the runs: the sales script never starts; any other run ends in one of
\* the three outcomes unless the bin edges of the identification loader do not
\* increase or the weight column holds text
OutcomesOtherwise ==
    /\ variant = "ventas" => pc \in {"idle", "nostart"}
    /\ (pc \in Terminal /\ pc \notin Outcomes) =>
          FailsToStart \/ BinningRaises \/ AggregationRaises

\* C20: after a run that stopped on the 'no data matches' path, the process is still
\* usable: the next interaction whose selections match at least one record runs the
\* full aggregate-and-render pipeline on the same preprocessed dataset and reaches the
\* success message, with nothing changed by the stopped run.
C20_UsableAfterNoData ==
    last = "nodata" =>
        /\ pc \in {"idle", "start", "loaded", "filtered", "nodata", "done"}
        /\ pc \in {"loaded", "filtered", "nodata", "done"} =>
              (df = cache.df /\ cache.at < run /\ parses = <<>>)
        /\ pc = "done" => (df_filtered.rows # <<>> /\ DOMAIN charts = ChartCols(variant))

\* what holds after the stopped run: the same dataset comes back without a parse, and
\* the run reaches the success message unless the weight column holds text
UsableUnlessTextWeights ==
    last = "nodata" =>
        /\ pc \in {"loaded", "filtered", "nodata", "done", "crash"} =>
              (df = cache.df /\ cache.at < run /\ parses = <<>>)
        /\ pc \notin {"fatal", "empty", "nostart"}
        /\ pc = "crash" => AggregationRaises

\* the run after a stopped one reached the success message on the cached dataset
SuccessAfterNoData == last = "nodata" /\ pc = "done" /\ df = cache.df /\ file = cache.src

\* the frame whose Edad column the age edges are built from, and the frame whose
\* Antiguedad_Meses column the business-age edges are built from
EdadFrame == NumericKept(Dedup(df_raw), "P241", "Edad")

AntiguedadFrame == NumericKept(EdadFrame, "P3034", "Antiguedad_Meses")

\* the loading stage handed a frame to the preprocessing steps
Preprocessed == pc \in {"loaded", "empty", "crash"}

\* the loader reached the statement that builds the age edges / the business-age edges
EdadEdgesBuilt ==
    variant = "ident" /\ Preprocessed /\ "P241" \in df_raw.cols

AntiguedadEdgesBuilt ==
    /\ variant = "ident" /\ Preprocessed /\ "P3034" \in df_raw.cols
    /\ "P241" \in df_raw.cols => ValidBins(bins_edad(EdadFrame))

\* C21: in the identification variant, the sequence of bin edges the loader builds for
\* age and for business age is strictly ascending for every dataset, whatever the
\* observed maximum of the column is (a maximum below 65 years or below 240 months,
\* or an empty column, included).
C21_EdgesAscending ==
    /\ EdadEdgesBuilt => ValidBins(bins_edad(EdadFrame))
    /\ AntiguedadEdgesBuilt => ValidBins(bins_antiguedad(AntiguedadFrame))

\* the observed maximum of a column lies in lo..hi
MaxWithin(d, num, lo, hi) ==
    IsNum(ColMax(d, num)) /\ lo <= ColMax(d, num).n /\ ColMax(d, num).n <= hi

\* what holds of the edges: they ascend exactly when the observed maximum is not
\* between 1 and 55 years (1 and 230 months), an empty column or a maximum that is
\* not positive giving the last edge 100 (250); and load_and_preprocess_data raises
\* exactly when edges it built do not ascend
EdgesAscendUnlessSmallMax ==
    /\ EdadEdgesBuilt =>
          (ValidBins(bins_edad(EdadFrame)) <=> ~MaxWithin(EdadFrame, "Edad", 1, 55))
    /\ AntiguedadEdgesBuilt =>
          (ValidBins(bins_antiguedad(AntiguedadFrame))
             <=> ~MaxWithin(AntiguedadFrame, "Antiguedad_Meses", 1, 230))
    /\ (variant = "ident" /\ pc = "crash") =>
          \/ EdadEdgesBuilt /\ ~ValidBins(bins_edad(EdadFrame))
          \/ AntiguedadEdgesBuilt /\ ~ValidBins(bins_antiguedad(AntiguedadFrame))
    /\ (variant = "ident" /\ Loaded) =>
          /\ "P241" \in df_raw.cols => ValidBins(bins_edad(EdadFrame))
          /\ "P3034" \in df_raw.cols => ValidBins(bins_antiguedad(AntiguedadFrame))

\* edges that ascend past the observed maximum, edges of an empty column, and edges
\* that do not ascend
EdgesPastMaxReached ==
    EdadEdgesBuilt /\ MaxWithin(EdadFrame, "Edad", 56, 70) /\ pc = "loaded"

EdgesOfEmptyColumnReached ==
    EdadEdgesBuilt /\ EdadFrame.rows = <<>> /\ bins_edad(EdadFrame)[7] = 100

EdgesNotAscendingReached ==
    /\ EdadEdgesBuilt /\ MaxWithin(EdadFrame, "Edad", 1, 55) /\ pc = "crash"
    /\ ~ValidBins(bins_edad(EdadFrame))

\* the file row fr has a numeric age and a numeric business age (a column the file
\* lacks drops no row)
NumericAges(fr) ==
    /\ "P241" \in file.cols => IsNum(ToNumeric(fr["P241"]))
    /\ "P3034" \in file.cols => IsNum(ToNumeric(fr["P3034"]))

\* the identifier x is present in the preprocessed dataset
Present(x) == \E i \in DOMAIN df.rows : df.rows[i]["DIRECTORIO"] = x

\* C22: in the identification variant, where deduplication by DIRECTORIO runs before
\* the rows with a missing or non-numeric age or business age are dropped, an
\* identifier is present in the preprocessed dataset whenever at least one of its rows
\* in the input file has a numeric age and a numeric business age.
C22_IdentifierKept ==
    (variant = "ident" /\ Loaded /\ "DIRECTORIO" \in file.cols) =>
        \A j \in DOMAIN file.rows :
            NumericAges(file.rows[j]) => Present(file.rows[j]["DIRECTORIO"])

\* what holds of the identifiers: one is present exactly when the first of its rows in
\* the file has a numeric age and a numeric business age
FirstRowDecides ==
    (variant = "ident" /\ Loaded /\ "DIRECTORIO" \in file.cols) =>
        \A j \in DOMAIN file.rows :
            Present(file.rows[j]["DIRECTORIO"]) <=> NumericAges(file.rows[FirstWith(j)])

\* an identifier whose second row has a numeric age is lost with its first row
IdentifierLostReached ==
    /\ variant = "ident" /\ Loaded
    /\ file.cols = {"DIRECTORIO", "P241"}
    /\ Len(file.rows) = 2
    /\ file.rows[1]["DIRECTORIO"] = file.rows[2]["DIRECTORIO"]
    /\ ~NumericAges(file.rows[1])
    /\ NumericAges(file.rows[2])
    /\ ~Present(file.rows[2]["DIRECTORIO"])

\* an identifier whose first row has a numeric age is kept beside a dropped one
IdentifierKeptReached ==
    /\ variant = "ident" /\ pc = "loaded"
    /\ file.cols = {"DIRECTORIO", "P241"}
    /\ Len(file.rows) = 2
    /\ file.rows[1]["DIRECTORIO"] # file.rows[2]["DIRECTORIO"]
    /\ ~NumericAges(file.rows[1])
    /\ NumericAges(file.rows[2])
    /\ Present(file.rows[2]["DIRECTORIO"])
    /\ ~Present(file.rows[1]["DIRECTORIO"])

====
